---- MODULE Spec2Model ----
(***************************************************************************)
(* A model of similar_books.py: the tokenizer, the top-K frequency ranker, *)
(* the pairwise comparator and the main() pipeline that sorts the pairs,   *)
(* announces the most similar one and optionally exports two CSV files.    *)
(*                                                                         *)
(* A text is a sequence of one-character strings, a token is a sequence of *)
(* upper-cased characters.  A float that the program computes as a / b is  *)
(* kept as the exact fraction <<a, b>>; round(x, 4) is kept as the integer *)
(* number of ten-thousandths.                                              *)
(***************************************************************************)
EXTENDS Integers, Sequences, FiniteSets, TLC

(***************************************************************************)
(* Characters                                                              *)
(***************************************************************************)
LowerLetters == <<"a","b","c","d","e","f","g","h","i","j","k","l","m",
                  "n","o","p","q","r","s","t","u","v","w","x","y","z">>

UpperLetters == <<"A","B","C","D","E","F","G","H","I","J","K","L","M",
                  "N","O","P","Q","R","S","T","U","V","W","X","Y","Z">>

DigitChars == <<"0","1","2","3","4","5","6","7","8","9">>

Range(s) == {s[i] : i \in DOMAIN s}

\* a list whose elements are computed once, when the list is built
List(s) == s \o <<>>

\* the character class [0-9A-Za-z] of the regular expression
AlnumChars == Range(DigitChars) \cup Range(UpperLetters) \cup Range(LowerLetters)

IsAlnum(c) == c \in AlnumChars

\* what str.split() splits on
IsSpace(c) == c \in {" ", "\t", "\n"}

\* str.upper() on one character: only a-z change among the characters used
UpperMap == [c \in Range(LowerLetters) |->
               UpperLetters[CHOOSE i \in DOMAIN LowerLetters : LowerLetters[i] = c]]

UpperChar(c) == IF c \in DOMAIN UpperMap THEN UpperMap[c] ELSE c

\* str.lower() on one character
LowerMap == [c \in Range(UpperLetters) |->
               LowerLetters[CHOOSE i \in DOMAIN UpperLetters : UpperLetters[i] = c]]

LowerChar(c) == IF c \in DOMAIN LowerMap THEN LowerMap[c] ELSE c

(***************************************************************************)
(* clean_and_tokenize                                                      *)
(***************************************************************************)
STOPWORDS == { <<"A">>, <<"A","N","D">>, <<"A","N">>, <<"O","F">>, <<"I","N">>,
               <<"T","H","E">> }

\* re.sub(r'[^0-9A-Za-z]+', ' ', text): every maximal run of characters
\* outside the class becomes one space.  The first character of such a run
\* becomes the space and the others go ("" marks them).
re_sub(text) ==
    LET marked == [i \in 1..Len(text) |->
                     IF IsAlnum(text[i]) THEN text[i]
                     ELSE IF i > 1 /\ ~IsAlnum(text[i - 1]) THEN ""
                     ELSE " "]
    IN  SelectSeq(marked, LAMBDA c : c # "")

\* text.upper()
upper(text) == List([i \in 1..Len(text) |-> UpperChar(text[i])])

\* text.split(): the words between runs of whitespace, no empty word: a word
\* starts at each character that is no whitespace and follows whitespace or
\* nothing, and runs up to the next whitespace or the end
split(text) ==
    LET starts == SelectSeq([i \in 1..Len(text) |-> i],
                            LAMBDA i : ~IsSpace(text[i])
                                       /\ (i = 1 \/ IsSpace(text[i - 1])))
        stop(i) == CHOOSE j \in i..Len(text) :
                       /\ j = Len(text) \/ IsSpace(text[j + 1])
                       /\ \A k \in i..j : ~IsSpace(text[k])
    IN  List([p \in 1..Len(starts) |-> SubSeq(text, starts[p], stop(starts[p]))])

\* a filter that keeps every token
filter_stopwords_KeepAll(tokens) == tokens

\* [t for t in tokens if t not in STOPWORDS]
filter_stopwords(tokens) == SelectSeq(tokens, LAMBDA t : t \notin STOPWORDS)

upper_tokens_after_filter(tokens) ==
    LET kept == filter_stopwords(tokens)
    IN  List([p \in 1..Len(kept) |-> upper(kept[p])])

\* a tokenizer that drops the stopwords before it upper-cases
clean_and_tokenize_FilterFirst(text) == upper_tokens_after_filter(split(re_sub(text)))

clean_and_tokenize(text) == filter_stopwords(split(upper(re_sub(text))))

(***************************************************************************)
(* topk_frequencies                                                        *)
(***************************************************************************)
\* Counter(tokens): a dict, so its items are in order of first insertion.
\* Modelled as the sequence of items <<word, count>> in that order: one item
\* for each position that holds the first occurrence of its word.
Counter(tokens) ==
    LET firsts == SelectSeq([i \in 1..Len(tokens) |-> i],
                            LAMBDA i : \A q \in 1..(i - 1) : tokens[q] # tokens[i])
    IN  List([p \in 1..Len(firsts) |->
                <<tokens[firsts[p]],
                  Cardinality({q \in 1..Len(tokens) : tokens[q] = tokens[firsts[p]]})>>])

\* Python's comparison of two tuples of integers of the same length
RECURSIVE TupleGreater_from(_, _, _)
TupleGreater_from(x, y, i) ==
    IF i > Len(x) THEN FALSE
    ELSE IF x[i] # y[i] THEN x[i] > y[i]
    ELSE TupleGreater_from(x, y, i + 1)

TupleGreater(x, y) == TupleGreater_from(x, y, 1)

\* sorted(s, key=..., reverse=True) and list.sort(key=..., reverse=True):
\* descending by key, elements with equal keys keep their order.
\* key[i] is the key of s[i], a tuple of integers.  s[i] lands after the
\* elements with a greater key and after those before it with an equal key.
SortDesc(s, key) ==
    LET n == Len(s)
        place == List([i \in 1..n |->
                    1 + Cardinality({j \in 1..n :
                                       \/ TupleGreater(key[j], key[i])
                                       \/ (j < i /\ ~TupleGreater(key[i], key[j]))})])
    IN  List([p \in 1..n |-> s[CHOOSE i \in 1..n : place[i] = p]])

Take(s, n) == IF n <= 0 THEN <<>> ELSE SubSeq(s, 1, IF n < Len(s) THEN n ELSE Len(s))

\* a ranking whose ties go to the word met last
most_common_LastFirst(counts, k) ==
    LET rev == List([i \in 1..Len(counts) |-> counts[Len(counts) + 1 - i]])
    IN  Take(SortDesc(rev, List([i \in 1..Len(rev) |-> <<rev[i][2]>>])), k)

\* Counter.most_common(k) = heapq.nlargest(k, items, key=itemgetter(1)), which
\* is sorted(items, key=itemgetter(1), reverse=True)[:k]; empty for k <= 0
most_common(counts, k) ==
    Take(SortDesc(counts, List([i \in 1..Len(counts) |-> <<counts[i][2]>>])), k)

\* c / total, or 0.0 when total is 0, as an exact fraction
norm_freq(c, total) == IF total # 0 THEN <<c, total>> ELSE <<0, 1>>

\* a ranker whose total is the number of distinct words
topk_frequencies_DistinctTotal(tokens, k) ==
    LET counts == Counter(tokens)
        total == Len(counts)
        mc == most_common(counts, k)
        top_table == List([i \in 1..Len(mc) |->
                        [WORD |-> mc[i][1], COUNT |-> mc[i][2],
                         NORM_FREQ |-> norm_freq(mc[i][2], total)]])
    IN  <<top_table, total>>

topk_frequencies(tokens, k) ==
    LET total == Len(tokens)
        counts == Counter(tokens)
        mc == most_common(counts, k)
        top_table == List([i \in 1..Len(mc) |->
                        [WORD |-> mc[i][1], COUNT |-> mc[i][2],
                         NORM_FREQ |-> norm_freq(mc[i][2], total)]])
    IN  <<top_table, total>>

(***************************************************************************)
(* similarity_metrics                                                      *)
(***************************************************************************)
\* a comparator that counts the union as the common words
similarity_metrics_CountUnion(top_set_a, top_set_b) ==
    LET inter == top_set_a \cap top_set_b
        union == top_set_a \cup top_set_b
        common_count == Cardinality(union)
        jaccard == IF union # {} THEN <<Cardinality(inter), Cardinality(union)>>
                   ELSE <<0, 1>>
    IN  <<common_count, jaccard>>

similarity_metrics(top_set_a, top_set_b) ==
    LET inter == top_set_a \cap top_set_b
        union == top_set_a \cup top_set_b
        common_count == Cardinality(inter)
        jaccard == IF union # {} THEN <<Cardinality(inter), Cardinality(union)>>
                   ELSE <<0, 1>>
    IN  <<common_count, jaccard>>

\* round(x, 4) of the fraction x = f[1] / f[2], in ten-thousandths: the nearest
\* multiple of 0.0001.  A fraction exactly half way between two multiples has
\* a denominator that is a multiple of 32 (none arises in the runs checked);
\* it is sent to the even one.
round4(f) ==
    LET n == 10000 * f[1]
        d == f[2]
        q == n \div d
        r == n % d
    IN  IF 2 * r > d THEN q + 1
        ELSE IF 2 * r < d THEN q
        ELSE IF q % 2 = 0 THEN q ELSE q + 1

(***************************************************************************)
(* The directory and list_text_files                                       *)
(***************************************************************************)
\* A directory entry's name is <<stem, extension>>; the stem is a number that
\* stands for the base name, and names compare as their stems do.
TxtLower == <<".", "t", "x", "t">>

TxtUpper == <<".", "T", "X", "T">>

MdExt == <<".", "m", "d">>

\* f.lower().endswith(".txt")
EndsWithTxt(name) == [i \in 1..Len(name[2]) |-> LowerChar(name[2][i])] = TxtLower

\* os.listdir returns the names in an arbitrary order
RECURSIVE listdir(_)
listdir(names) ==
    IF names = {} THEN <<>>
    ELSE LET f == CHOOSE x \in names : TRUE
         IN  <<f>> \o listdir(names \ {f})

\* sorted(...) of paths in one directory: ascending by name
sorted_paths(s) == SortDesc(s, List([i \in 1..Len(s) |-> <<0 - s[i][1]>>]))

list_text_files(d) ==
    sorted_paths(SelectSeq(listdir({e.name : e \in d}),
                           LAMBDA f : EndsWithTxt(f)
                                      /\ \E e \in d : e.name = f /\ e.isfile))

\* combinations(names, 2): the pairs <<names[i], names[j]>>, i < j, in
\* lexicographic order of <<i, j>>
RECURSIVE combinations2_from(_, _, _)
combinations2_from(names, i, j) ==
    IF i >= Len(names) THEN <<>>
    ELSE IF j > Len(names) THEN combinations2_from(names, i + 1, i + 2)
    ELSE <<<<names[i], names[j]>>>> \o combinations2_from(names, i, j + 1)

\* every ordered pair of two positions, as permutations(names, 2) gives
combinations2_Ordered(names) ==
    LET n == Len(names)
        all == List([p \in 1..(n * n) |-> <<((p - 1) \div n) + 1, ((p - 1) % n) + 1>>])
        off == SelectSeq(all, LAMBDA ij : ij[1] # ij[2])
    IN  List([p \in 1..Len(off) |-> <<names[off[p][1]], names[off[p][2]]>>])

combinations2(names) == combinations2_from(names, 1, 2)

(***************************************************************************)
(* Inputs                                                                  *)
(***************************************************************************)
MaxFiles == 3

MaxK == 2

MaxTextLen == 4

MaxRankTokens == 5

\* words joined by single spaces
RECURSIVE Join(_)
Join(words) ==
    IF words = <<>> THEN <<>>
    ELSE IF Len(words) = 1 THEN words[1]
    ELSE words[1] \o <<" ">> \o Join(Tail(words))

SeqsUpTo(S, n) == UNION {[1..m -> S] : m \in 0..n}

\* "The Cat and the DOG, the dog-house!"
ExampleText ==
    <<"T","h","e"," ","C","a","t"," ","a","n","d"," ","t","h","e"," ",
      "D","O","G",","," ","t","h","e"," ","d","o","g","-","h","o","u","s","e","!">>

APPLE == <<"A","P","P","L","E">>

BANANA == <<"B","A","N","A","N","A">>

\* the two files of the end-to-end example
AppleText == Join(<<(<<"A">>), APPLE, APPLE, BANANA>>)

BananaText == Join(<<APPLE, BANANA, BANANA, BANANA>>)

\* every text of at most MaxTextLen characters over a lower-case letter, an
\* upper-case letter, a digit, a non-stopword letter and two separators
ShortAlphabet == {"a", "N", "1", "-", " "}

ShortTexts == SeqsUpTo(ShortAlphabet, MaxTextLen)

\* every sequence of at most MaxRankTokens words over three words
RankWords == {<<"x">>, <<"y">>, <<"z", "1">>}

RankTexts == {Join(ws) : ws \in SeqsUpTo(RankWords, MaxRankTokens)}

\* the documents of the runs with up to MaxFiles files
PipelineTexts ==
    { <<>>,
      Join(<<(<<"x">>)>>),
      Join(<<(<<"x">>), <<"y">>>>),
      Join(<<(<<"y">>), <<"x">>, <<"z">>>>),
      Join(<<(<<"z">>), <<"y">>, <<"y">>>>),
      Join(<<(<<"z">>)>>) }

ExportPrefixes == {"", "results"}

\* the decimal digits of n >= 0
RECURSIVE Decimal(_)
Decimal(n) ==
    IF n < 10 THEN <<DigitChars[n + 1]>>
    ELSE Append(Decimal(n \div 10), DigitChars[(n % 10) + 1])

\* the text "lo lo+1 ... hi": hi - lo + 1 distinct words
IntervalText(lo, hi) == Join(List([i \in 1..(hi - lo + 1) |-> Decimal(lo + i - 1)]))

\* K of the runs on documents of many distinct words
WideK == 55

\* documents whose words each occur once and that share the word WideK - 1
WideTexts ==
    { IntervalText(1, WideK - 1),
      IntervalText(WideK - 1, 2 * WideK - 2),
      IntervalText(WideK - 1, 2 * WideK - 3),
      IntervalText(WideK - 1, WideK + 1) }

(***************************************************************************)
(* State                                                                   *)
(***************************************************************************)
VARIABLES
    dir,          \* the entries of --dir: [name, isfile]
    texts,        \* the decoded contents of the regular files, by name
    args,         \* [topk, export]
    pc,           \* position in main()
    files,        \* list_text_files(args.dir)
    idx,          \* position of the loop over files at line 94
    tokens,       \* the tokens of the file read last
    file_topk,    \* file name -> top_table
    file_totals,  \* file name -> total
    pairs,        \* the list of pair results
    best,         \* <<>> or <<the pair announced as most similar>>
    out,          \* what has been printed, one tag per block of output
    opened,       \* the files opened for reading
    written       \* the export files written

vars == <<dir, texts, args, pc, files, idx, tokens, file_topk, file_totals,
          pairs, best, out, opened, written>>

FileName(i) == <<i, IF i % 2 = 0 THEN TxtUpper ELSE TxtLower>>

\* n text files, a file that is no .txt and a directory whose name ends in .txt
Directory(n) ==
    {[name |-> FileName(i), isfile |-> TRUE] : i \in 1..n}
    \cup {[name |-> <<0, MdExt>>, isfile |-> TRUE],
          [name |-> <<0, TxtLower>>, isfile |-> FALSE]}

InitRest ==
    /\ pc = "start"
    /\ files = <<>>
    /\ idx = 0
    /\ tokens = <<>>
    /\ file_topk = [k \in {} |-> <<>>]
    /\ file_totals = [k \in {} |-> 0]
    /\ pairs = <<>>
    /\ best = <<>>
    /\ out = <<>>
    /\ opened = {}
    /\ written = {}

Init ==
    /\ \E n \in 0..MaxFiles :
         /\ dir = Directory(n)
         /\ texts \in [{FileName(i) : i \in 1..n} -> PipelineTexts]
    /\ args \in [topk : 0..MaxK, export : ExportPrefixes]
    /\ InitRest

\* two files: any short text or any short sequence of words, followed by the
\* example text; or the two files of the end-to-end example
InitDoc ==
    /\ dir = Directory(2)
    /\ \E t \in {<<t1, ExampleText>> : t1 \in ShortTexts \cup RankTexts}
                \cup {<<AppleText, BananaText>>} :
         texts = [f \in {FileName(1), FileName(2)} |->
                    IF f = FileName(1) THEN t[1] ELSE t[2]]
    /\ args \in [topk : 0..MaxK, export : ExportPrefixes]
    /\ InitRest

\* three files of many distinct words, K large enough to keep them all
InitWide ==
    /\ dir = Directory(3)
    /\ texts \in [{FileName(i) : i \in 1..3} -> WideTexts]
    /\ args \in [topk : {WideK}, export : ExportPrefixes]
    /\ InitRest

(***************************************************************************)
(* main                                                                    *)
(***************************************************************************)
\* a run that is content with one file
ListFiles_OneIsEnough ==
    /\ pc = "start"
    /\ files' = list_text_files(dir)
    /\ IF Len(files') < 1
       THEN /\ out' = Append(out, "need2")
            /\ pc' = "done"
            /\ idx' = idx
       ELSE /\ out' = Append(out, "found")
            /\ pc' = "read"
            /\ idx' = 1
    /\ UNCHANGED <<dir, texts, args, tokens, file_topk, file_totals, pairs,
                   best, opened, written>>

ListFiles ==
    /\ pc = "start"
    /\ files' = list_text_files(dir)
    /\ IF Len(files') < 2
       THEN /\ out' = Append(out, "need2")
            /\ pc' = "done"
            /\ idx' = idx
       ELSE /\ out' = Append(out, "found")
            /\ pc' = "read"
            /\ idx' = 1
    /\ UNCHANGED <<dir, texts, args, tokens, file_topk, file_totals, pairs,
                   best, opened, written>>

\* one iteration of the loop at line 94
ReadFile ==
    /\ pc = "read"
    /\ LET fpath == files[idx]
           toks == clean_and_tokenize(texts[fpath])
           res == topk_frequencies(toks, args.topk)
           put(f, v) == [k \in DOMAIN f \cup {fpath} |-> IF k = fpath THEN v ELSE f[k]]
       IN  /\ opened' = opened \cup {fpath}
           /\ tokens' = toks
           /\ file_topk' = put(file_topk, res[1])
           /\ file_totals' = put(file_totals, res[2])
    /\ idx' = idx + 1
    /\ pc' = IF idx = Len(files) THEN "report" ELSE "read"
    /\ UNCHANGED <<dir, texts, args, files, pairs, best, out, written>>

\* a run that skips a file it cannot read
ReadFileFails_Skips ==
    /\ pc = "read"
    /\ idx' = idx + 1
    /\ pc' = IF idx = Len(files) THEN "report" ELSE "read"
    /\ UNCHANGED <<dir, texts, args, files, tokens, file_topk, file_totals,
                   pairs, best, out, opened, written>>

\* open() raises: nothing in main catches it
ReadFileFails ==
    /\ pc = "read"
    /\ pc' = "crashed"
    /\ UNCHANGED <<dir, texts, args, files, idx, tokens, file_topk, file_totals,
                   pairs, best, out, opened, written>>

PrintTopK ==
    /\ pc = "report"
    /\ out' = Append(out, "topk")
    /\ pc' = "pairs"
    /\ UNCHANGED <<dir, texts, args, files, idx, tokens, file_topk, file_totals,
                   pairs, best, opened, written>>

top_set(f) == {file_topk[f][i].WORD : i \in DOMAIN file_topk[f]}

pair_result(a, b) ==
    LET m == similarity_metrics(top_set(a), top_set(b))
    IN  [FILE_A |-> a, FILE_B |-> b, COMMON_TOPK_WORDS |-> m[1],
         JACCARD |-> round4(m[2])]

ComputePairs ==
    /\ pc = "pairs"
    /\ LET cs == combinations2(files)
       IN  pairs' = List([i \in 1..Len(cs) |-> pair_result(cs[i][1], cs[i][2])])
    /\ pc' = "sort"
    /\ UNCHANGED <<dir, texts, args, files, idx, tokens, file_topk, file_totals,
                   best, out, opened, written>>

\* a sort on the common-word count alone
sort_key_CommonOnly(x) == <<x.COMMON_TOPK_WORDS>>

sort_key(x) == <<x.COMMON_TOPK_WORDS, x.JACCARD>>

sort_pairs(ps) == SortDesc(ps, List([i \in 1..Len(ps) |-> sort_key(ps[i])]))

SortPairs ==
    /\ pc = "sort"
    /\ pairs' = sort_pairs(pairs)
    /\ out' = Append(out, "pairs")
    /\ pc' = "announce"
    /\ UNCHANGED <<dir, texts, args, files, idx, tokens, file_topk, file_totals,
                   best, opened, written>>

Announce ==
    /\ pc = "announce"
    /\ IF pairs # <<>>
       THEN /\ best' = <<pairs[1]>>
            /\ out' = Append(out, "best")
       ELSE UNCHANGED <<best, out>>
    /\ pc' = "export"
    /\ UNCHANGED <<dir, texts, args, files, idx, tokens, file_topk, file_totals,
                   pairs, opened, written>>

ExportCsv ==
    /\ pc = "export"
    /\ args.export # ""
    /\ written' = {<<args.export, "_pairs.csv">>, <<args.export, "_topk.csv">>}
    /\ out' = Append(out, "exported")
    /\ pc' = "done"
    /\ UNCHANGED <<dir, texts, args, files, idx, tokens, file_topk, file_totals,
                   pairs, best, opened>>

NoExport ==
    /\ pc = "export"
    /\ args.export = ""
    /\ pc' = "done"
    /\ UNCHANGED <<dir, texts, args, files, idx, tokens, file_topk, file_totals,
                   pairs, best, out, opened, written>>

Next ==
    \/ ListFiles
    \/ ReadFile
    \/ ReadFileFails
    \/ PrintTopK
    \/ ComputePairs
    \/ SortPairs
    \/ Announce
    \/ ExportCsv
    \/ NoExport

Spec == Init /\ [][Next]_vars

SpecDoc == InitDoc /\ [][Next]_vars

SpecWide == InitWide /\ [][Next]_vars

(***************************************************************************)
(* Properties of one document                                              *)
(***************************************************************************)
\* a file has just been read: tokens are those of files[idx - 1], and its
\* entries of file_topk and file_totals are never assigned again
HasRead == idx >= 2 /\ pc \in {"read", "report"}

LastRead == files[idx - 1]

Min(a, b) == IF a < b THEN a ELSE b

\* the number of occurrences of w in toks and the position of the first one
Occ(w, toks) == Cardinality({p \in DOMAIN toks : toks[p] = w})

FirstOcc(w, toks) == CHOOSE p \in DOMAIN toks : toks[p] = w /\ \A q \in 1..(p - 1) : toks[q] # w

\* v ranks before w: more occurrences, or as many and an earlier first one
RanksBefore(v, w, toks) ==
    \/ Occ(v, toks) > Occ(w, toks)
    \/ Occ(v, toks) = Occ(w, toks) /\ FirstOcc(v, toks) < FirstOcc(w, toks)

TableWords(table) == {table[i].WORD : i \in DOMAIN table}

\* C1: for every token sequence and every K >= 1 the table of topk_frequencies
\* has min(K, number of distinct words) entries, each entry ranks before the
\* next one (count descending, equal counts by earlier first occurrence), and
\* every entry ranks before every word that was left out.
C1_TopKRanking ==
    (HasRead /\ args.topk >= 1) =>
        LET table == file_topk[LastRead]
            words == Range(tokens)
        IN  /\ Len(table) = Min(args.topk, Cardinality(words))
            /\ TableWords(table) \subseteq words
            /\ \A i, j \in DOMAIN table :
                 i < j => RanksBefore(table[i].WORD, table[j].WORD, tokens)
            /\ \A w \in words \ TableWords(table) : \A i \in DOMAIN table :
                 RanksBefore(table[i].WORD, w, tokens)

\* a tie at the cutoff: a word left out occurs as often as the last entry
C1_Witness ==
    /\ HasRead
    /\ args.topk >= 1
    /\ LET table == file_topk[LastRead]
       IN  /\ Len(table) = args.topk
           /\ \E w \in Range(tokens) \ TableWords(table) :
                Occ(w, tokens) = table[Len(table)].COUNT

\* the characters of a token and their upper-case forms, from the alphabet
IsLetterOrDigit(c) ==
    \/ \E i \in DOMAIN LowerLetters : c = LowerLetters[i] \/ c = UpperLetters[i]
    \/ \E i \in DOMAIN DigitChars : c = DigitChars[i]

UpperCased(c) ==
    IF \E i \in DOMAIN LowerLetters : c = LowerLetters[i]
    THEN UpperLetters[CHOOSE i \in DOMAIN LowerLetters : c = LowerLetters[i]]
    ELSE c

\* the positions where a maximal run of letters and digits starts
RunStarts(text) ==
    {i \in DOMAIN text : IsLetterOrDigit(text[i])
                         /\ (i = 1 \/ ~IsLetterOrDigit(text[i - 1]))}

RunEnd(text, i) ==
    CHOOSE j \in i..Len(text) :
        /\ \A k \in i..j : IsLetterOrDigit(text[k])
        /\ (j = Len(text) \/ ~IsLetterOrDigit(text[j + 1]))

RunAt(text, i) == [k \in 1..(RunEnd(text, i) - i + 1) |-> UpperCased(text[i + k - 1])]

SixStopwords == { <<"A">>, <<"A","N","D">>, <<"A","N">>, <<"O","F">>, <<"I","N">>,
                  <<"T","H","E">> }

\* the runs that are no stopword, in order of appearance
KeptRuns(text) ==
    LET kept == {i \in RunStarts(text) : RunAt(text, i) \notin SixStopwords}
    IN  [p \in 1..Cardinality(kept) |->
           RunAt(text, CHOOSE i \in kept : Cardinality({m \in kept : m < i}) = p - 1)]

CAT == <<"C","A","T">>

DOG == <<"D","O","G">>

HOUSE == <<"H","O","U","S","E">>

\* C6: clean_and_tokenize returns the maximal runs of ASCII letters and digits,
\* upper-cased, in order of appearance, without the runs that are one of the
\* six stopwords; no token is empty or a stopword; the example text yields
\* CAT, DOG, DOG, HOUSE.
C6_Tokenizer ==
    HasRead =>
        /\ tokens = KeptRuns(texts[LastRead])
        /\ \A p \in DOMAIN tokens : tokens[p] # <<>> /\ tokens[p] \notin SixStopwords
        /\ (texts[LastRead] = ExampleText => tokens = <<CAT, DOG, DOG, HOUSE>>)

\* a text with a lower-case stopword between two kept runs
C6_Witness ==
    /\ HasRead
    /\ Len(tokens) >= 2
    /\ \E i \in RunStarts(texts[LastRead]) :
         /\ RunAt(texts[LastRead], i) \in SixStopwords
         /\ texts[LastRead][i] \in Range(LowerLetters)
         /\ \E a, b \in RunStarts(texts[LastRead]) :
              /\ a < i /\ i < b
              /\ RunAt(texts[LastRead], a) \notin SixStopwords
              /\ RunAt(texts[LastRead], b) \notin SixStopwords

RECURSIVE SumCounts(_, _)
SumCounts(table, i) == IF i > Len(table) THEN 0 ELSE table[i].COUNT + SumCounts(table, i + 1)

\* C7: total is the number of filtered tokens, each COUNT is the number of
\* occurrences of the word, each normalized frequency is COUNT / total with a
\* denominator that is not zero, the counts of the table sum to at most
\* total, and a document without tokens has an empty table and total 0.
C7_CountsAndTotal ==
    HasRead =>
        LET table == file_topk[LastRead]
            total == file_totals[LastRead]
        IN  /\ total = Len(tokens)
            /\ \A i \in DOMAIN table :
                 /\ table[i].COUNT = Occ(table[i].WORD, tokens)
                 /\ table[i].NORM_FREQ[2] # 0
                 /\ table[i].NORM_FREQ[1] * total = table[i].COUNT * table[i].NORM_FREQ[2]
            /\ SumCounts(table, 1) <= total
            /\ (tokens = <<>> => table = <<>> /\ total = 0)

\* the first file has no token; the second has more tokens than its table counts
C7_Witness ==
    /\ idx = 3
    /\ file_totals[files[1]] = 0
    /\ file_topk[files[1]] = <<>>
    /\ file_topk[LastRead] # <<>>
    /\ SumCounts(file_topk[LastRead], 1) < file_totals[LastRead]

\* C9: the files "A APPLE APPLE BANANA" and "APPLE BANANA BANANA BANANA" with
\* K = 2 give the tables APPLE:2, BANANA:1 and BANANA:3, APPLE:1 and one pair
\* result with 2 common words and Jaccard 1.0.
C9_EndToEnd ==
    (/\ pc \in {"sort", "announce", "export", "done"}
     /\ Len(files) = 2
     /\ texts[files[1]] = AppleText
     /\ texts[files[2]] = BananaText
     /\ args.topk = 2) =>
        /\ [i \in 1..Len(file_topk[files[1]]) |->
              <<file_topk[files[1]][i].WORD, file_topk[files[1]][i].COUNT>>]
           = << <<APPLE, 2>>, <<BANANA, 1>> >>
        /\ [i \in 1..Len(file_topk[files[2]]) |->
              <<file_topk[files[2]][i].WORD, file_topk[files[2]][i].COUNT>>]
           = << <<BANANA, 3>>, <<APPLE, 1>> >>
        /\ Len(pairs) = 1
        /\ pairs[1].COMMON_TOPK_WORDS = 2
        /\ pairs[1].JACCARD = 10000

C9_Witness ==
    /\ pc = "done"
    /\ Len(files) = 2
    /\ texts[files[1]] = AppleText
    /\ texts[files[2]] = BananaText
    /\ args.topk = 2
    /\ best # <<>>

(***************************************************************************)
(* Properties of a run                                                     *)
(***************************************************************************)
\* the pair list has been computed
PairsComputed == pc \in {"sort", "announce", "export", "done"}

\* the pair list has been sorted
PairsSorted == pc \in {"announce", "export", "done"}

\* C2: similarity_metrics returns |A \cap B| and |A \cap B| / |A \cup B|, 0.0 when
\* both sets are empty, so 0.0 <= jaccard <= 1.0; every pair result holds the
\* size of the intersection of its two top-K sets and the rounded Jaccard
\* index, and with K >= 1 the common count is at most the size of the smaller
\* set, which is at most K.
C2_Metrics ==
    PairsComputed =>
        \A i \in DOMAIN pairs :
            LET A == TableWords(file_topk[pairs[i].FILE_A])
                B == TableWords(file_topk[pairs[i].FILE_B])
                nInter == Cardinality({w \in A : w \in B})
                nUnion == Cardinality(A) + Cardinality(B) - nInter
                m == similarity_metrics(A, B)
            IN  /\ m[1] = nInter
                /\ m[2][2] > 0
                /\ m[2][1] * nUnion = nInter * m[2][2]
                /\ (nUnion = 0 => m[2][1] = 0)
                /\ 0 <= m[2][1] /\ m[2][1] <= m[2][2]
                /\ pairs[i].COMMON_TOPK_WORDS = nInter
                /\ 0 <= pairs[i].JACCARD /\ pairs[i].JACCARD <= 10000
                /\ (nUnion > 0 => \* within half a ten-thousandth of the fraction
                      /\ 2 * (pairs[i].JACCARD * nUnion - 10000 * nInter) <= nUnion
                      /\ 2 * (10000 * nInter - pairs[i].JACCARD * nUnion) <= nUnion)
                /\ (nUnion = 0 => pairs[i].JACCARD = 0)
                /\ (args.topk >= 1 =>
                      /\ nInter <= Min(Cardinality(A), Cardinality(B))
                      /\ Min(Cardinality(A), Cardinality(B)) <= args.topk)

\* a pair whose sets overlap in part: one common word of two
C2_Witness ==
    /\ PairsComputed
    /\ args.topk >= 1
    /\ \E i \in DOMAIN pairs :
         /\ pairs[i].COMMON_TOPK_WORDS = 1
         /\ pairs[i].JACCARD = 5000
         /\ Len(file_topk[pairs[i].FILE_A]) # Len(file_topk[pairs[i].FILE_B])

\* C4: with at least 2 documents processed, the pair announced as most similar
\* is the first of the sorted list, no pair has a greater common count and no
\* pair with the same common count has a greater reported Jaccard value.
C4_MostSimilar ==
    (pc \in {"export", "done"} /\ Len(files) >= 2) =>
        /\ best # <<>>
        /\ best[1] = pairs[1]
        /\ \A i \in DOMAIN pairs :
             /\ pairs[i].COMMON_TOPK_WORDS <= best[1].COMMON_TOPK_WORDS
             /\ (pairs[i].COMMON_TOPK_WORDS = best[1].COMMON_TOPK_WORDS
                   => pairs[i].JACCARD <= best[1].JACCARD)

\* the announced pair is not the first pair compared, and it wins on Jaccard
C4_Witness ==
    /\ pc = "done"
    /\ best # <<>>
    /\ best[1].FILE_A # files[1]
    /\ \E i \in DOMAIN pairs :
         /\ pairs[i].FILE_A = files[1] /\ pairs[i].FILE_B = files[2]
         /\ pairs[i].COMMON_TOPK_WORDS = best[1].COMMON_TOPK_WORDS
         /\ pairs[i].JACCARD < best[1].JACCARD

\* C5: for n >= 2 documents the pair list holds n * (n - 1) / 2 results, one for
\* every unordered pair of distinct documents, none with FILE_A = FILE_B and
\* never both (A, B) and (B, A).
C5_AllPairsOnce ==
    (PairsComputed /\ Len(files) >= 2) =>
        LET n == Len(files)
            docs == Range(files)
        IN  /\ 2 * Len(pairs) = n * (n - 1)
            /\ \A i \in DOMAIN pairs :
                 /\ pairs[i].FILE_A # pairs[i].FILE_B
                 /\ {pairs[i].FILE_A, pairs[i].FILE_B} \subseteq docs
            /\ \A i, j \in DOMAIN pairs :
                 i # j => {pairs[i].FILE_A, pairs[i].FILE_B}
                            # {pairs[j].FILE_A, pairs[j].FILE_B}
            /\ \A a, b \in docs :
                 a # b => \E i \in DOMAIN pairs :
                            {pairs[i].FILE_A, pairs[i].FILE_B} = {a, b}

C5_Witness ==
    /\ pc = "done"
    /\ Len(files) = 3
    /\ Len(pairs) = 3

\* the entries of the directory that are regular files named *.txt, in any case
Qualifying(d) == {e \in d : e.isfile /\ e.name[2] \in {TxtLower, TxtUpper}}

\* C8: with fewer than 2 qualifying .txt files the run prints the "Please
\* provide at least 2 .txt files" message and ends: no file is read or
\* tokenized, no pair result is computed and no export file is written.
C8_TooFewFiles ==
    (pc # "start" /\ Cardinality(Qualifying(dir)) < 2) =>
        /\ pc = "done"
        /\ out = <<"need2">>
        /\ opened = {}
        /\ tokens = <<>>
        /\ DOMAIN file_topk = {}
        /\ DOMAIN file_totals = {}
        /\ pairs = <<>>
        /\ best = <<>>
        /\ written = {}

\* one qualifying file, --export given, the run over
C8_Witness ==
    /\ pc = "done"
    /\ Cardinality(Qualifying(dir)) = 1
    /\ args.export # ""
    /\ out = <<"need2">>

\* C10: every document is read and tokenized before any per-document report,
\* pair result, announcement or export file; export files are written last;
\* a run in which a read fails has no pair result, no announcement and no
\* export file.
C10_ReadAllFirst ==
    /\ ("topk" \in Range(out) \/ "pairs" \in Range(out) \/ pairs # <<>>
          \/ best # <<>> \/ written # {})
         => /\ opened = Range(files)
            /\ DOMAIN file_topk = Range(files)
            /\ DOMAIN file_totals = Range(files)
    /\ written # {} => /\ pc = "done"
                       /\ {"topk", "pairs", "best"} \subseteq Range(out)
    /\ pc = "crashed" => /\ pairs = <<>>
                         /\ best = <<>>
                         /\ written = {}
                         /\ out = <<"found">>

\* the second file cannot be read, --export given
C10_Witness ==
    /\ pc = "crashed"
    /\ opened = {files[1]}
    /\ Len(files) >= 2
    /\ args.export # ""

\* the Jaccard index of pair i is greater than that of pair j
JaccardGreater(i, j) ==
    LET mi == similarity_metrics(TableWords(file_topk[pairs[i].FILE_A]),
                                 TableWords(file_topk[pairs[i].FILE_B]))[2]
        mj == similarity_metrics(TableWords(file_topk[pairs[j].FILE_A]),
                                 TableWords(file_topk[pairs[j].FILE_B]))[2]
    IN  mi[1] * mj[2] > mj[1] * mi[2]

\* C3: after the sort the pair list is ordered by common-word count
\* descending, and of two pairs with equal common-word count the one with the
\* higher Jaccard index comes first.
C3_SortedByCommonThenJaccard ==
    PairsSorted =>
        \A i, j \in DOMAIN pairs :
            i < j => /\ pairs[i].COMMON_TOPK_WORDS >= pairs[j].COMMON_TOPK_WORDS
                     /\ (pairs[i].COMMON_TOPK_WORDS = pairs[j].COMMON_TOPK_WORDS
                           => ~JaccardGreater(j, i))

====
